---- MODULE Spec2Model ----
(***************************************************************************)
(* A model of sk_kernel_counter_batch.py: the kernel counter that segments *)
(* the kernels of a scanned maize ear, groups them by fluorescence with    *)
(* k-means and writes one count record per image.                          *)
(*                                                                         *)
(* Images are arrays over a small grid, indexed from 0 as in numpy.  Real  *)
(* numbers the script computes (crop bounds, centroids, mean intensities)  *)
(* are exact fractions <<numerator, denominator>>.  Library calls whose    *)
(* result depends on random initialisation or on flood order (KMeans,      *)
(* watershed) are a nondeterministic choice over the results they can      *)
(* return.                                                                 *)
(*                                                                         *)
(* Four specifications share the variables:                                *)
(*   Spec         the script: arguments, directory listing, the loop over  *)
(*                the images, count_kernels from the summarised objects    *)
(*                on, and the tsv writer;                                  *)
(*   SpecKernels  count_kernels on one image at the level of pixels, from  *)
(*                the labelling of the segmentation on;                    *)
(*   SpecSeg      region_based_segmentation from the byte image on;        *)
(*   SpecCrop     crop_edges.                                              *)
(***************************************************************************)
EXTENDS Integers, Sequences, FiniteSets, TLC

VARIABLES
    pc,                     \* the statement the script is at
    exception,              \* the exception that ended the run ("" while none)
    args,                   \* the parsed command line
    directory,              \* the files of the input directory
    input_image_list,       \* the .png files, in os.listdir order
    image_name_list,        \* identifiers of the images started so far
    fluor_kernel_count,     \* element 0 of each count_kernels result
    nonfluor_kernel_count,  \* element 1 of each count_kernels result
    output_file,            \* the payloads written to the tsv file, in order
    returns,                \* history: what count_kernels returned, per call
    raw_width,              \* number of columns of the raw image
    cropped,                \* the columns crop_edges keeps
    hdome,                  \* the byte image inside region_based_segmentation
    markers,                \* the watershed markers
    segmentation,           \* watershed result, then the binary segmentation
    image,                  \* the cropped RGB image
    image_segments,         \* the label mask
    segment_centers,        \* result of find_centers
    rgb_intensity,          \* result of mean_intensity
    kmeans,                 \* the fitted model: [fitted, labels_]
    data_array,             \* rows <<x, y, label>> built before counting
    count_kernels_output    \* what count_kernels returned

vars == <<pc, exception, args, directory, input_image_list, image_name_list,
          fluor_kernel_count, nonfluor_kernel_count, output_file, returns,
          raw_width, cropped, hdome, markers, segmentation, image,
          image_segments, segment_centers, rgb_intensity, kmeans, data_array,
          count_kernels_output>>

(***************************************************************************)
(* Bounds of the model.                                                    *)
(***************************************************************************)
\* Image height and width in pixels.
Rows == 2

Cols == 3

\* Largest channel value of an image pixel or of a summarised object.
MaxIntensity == 1

\* Largest byte value of the dome image before its intensity is rescaled.
MaxGray == 2

\* Most objects of one image in Spec.
MaxObjects == 3

\* Most files in the input directory.
MaxFiles == 2

\* Largest raw image width in SpecCrop.
MaxWidth == 20

\* The crop fraction is a multiple of 1 / PercentDen.
PercentDen == 100

(***************************************************************************)
(* Program constants.                                                      *)
(***************************************************************************)
DefaultCropPercent == 15

DefaultWatershedLow == 20

DefaultWatershedHigh == 80

OpeningRadius == 5

MaxByte == 255

(***************************************************************************)
(* Arithmetic helpers.                                                     *)
(***************************************************************************)
Abs(a) == IF a >= 0 THEN a ELSE -a

RECURSIVE SumOver(_, _)
\* The sum of f[x] over the finite set S included in DOMAIN f.
SumOver(f, S) ==
    IF S = {} THEN 0
    ELSE LET x == CHOOSE y \in S : TRUE
         IN  f[x] + SumOver(f, S \ {x})

\* Python's round() on the float n / d (d > 0, n >= 0): to the nearest
\* integer, a tie to the even one.
round(n, d) ==
    LET q == n \div d
        r == n % d
    IN  IF 2 * r < d THEN q
        ELSE IF 2 * r > d THEN q + 1
        ELSE IF q % 2 = 0 THEN q ELSE q + 1

\* Equality and order of fractions with positive denominators.
FracEq(a, b) == a[1] * b[2] = b[1] * a[2]

FracLess(a, b) == a[1] * b[2] < b[1] * a[2]

(***************************************************************************)
(* The values of the variables a specification does not use.               *)
(***************************************************************************)
Grid == (0 .. Rows - 1) \X (0 .. Cols - 1)

DefaultArgs ==
    [image_crop_percentage |-> DefaultCropPercent,
     watershed_low |-> DefaultWatershedLow,
     watershed_high |-> DefaultWatershedHigh]

NotFitted == [fitted |-> FALSE, labels_ |-> <<>>]

Blank == [p \in Grid |-> 0]

BlankImage == [p \in Grid |-> <<0, 0, 0>>]

(***************************************************************************)
(* crop_edges                                                              *)
(***************************************************************************)
\* A mutation of crop_edges that forgets the crop on the right.
crop_edges_left_only(width, percent) ==
    LET left_crop_column == round(percent * width, PercentDen)
    IN  {c \in 0 .. width - 1 : left_crop_column <= c}

\* The columns image[:, left:right] keeps of an image `width` columns wide,
\* the crop fraction being percent / PercentDen.
crop_edges(width, percent) ==
    LET crop_column_width == width
        left_crop_column == round(percent * crop_column_width, PercentDen)
        right_crop_column ==
            round(PercentDen * crop_column_width - percent * crop_column_width,
                  PercentDen)
    IN  {c \in 0 .. crop_column_width - 1 :
            left_crop_column <= c /\ c < right_crop_column}

InitCrop ==
    /\ pc = "crop"
    /\ exception = ""
    /\ args \in {[DefaultArgs EXCEPT !.image_crop_percentage = p] :
                    p \in 0 .. PercentDen \div 2}
    /\ raw_width \in 0 .. MaxWidth
    /\ cropped = {}
    /\ directory = {}
    /\ input_image_list = <<>>
    /\ image_name_list = <<>>
    /\ fluor_kernel_count = <<>>
    /\ nonfluor_kernel_count = <<>>
    /\ output_file = <<>>
    /\ returns = <<>>
    /\ hdome = Blank
    /\ markers = Blank
    /\ segmentation = Blank
    /\ image = BlankImage
    /\ image_segments = Blank
    /\ segment_centers = <<>>
    /\ rgb_intensity = <<>>
    /\ kmeans = NotFitted
    /\ data_array = <<>>
    /\ count_kernels_output = <<>>

\* count_kernels, line 348: image = crop_edges(raw_image, crop_percentage).
CropEdges ==
    /\ pc = "crop"
    /\ cropped' = crop_edges(raw_width, args.image_crop_percentage)
    /\ pc' = "cropped"
    /\ UNCHANGED <<exception, args, directory, input_image_list,
                   image_name_list, fluor_kernel_count, nonfluor_kernel_count,
                   output_file, returns, raw_width, hdome, markers,
                   segmentation, image, image_segments, segment_centers,
                   rgb_intensity, kmeans, data_array, count_kernels_output>>

NextCrop == CropEdges

SpecCrop == InitCrop /\ [][NextCrop]_vars

\* C7 as stated: the number of columns crop_edges returns equals
\* round(w * (1 - 2p)) for every width w and every fraction p in [0, 0.5].
C7_CropWidthExact ==
    pc = "cropped" =>
        Cardinality(cropped) =
            round(raw_width * (PercentDen - 2 * args.image_crop_percentage),
                  PercentDen)

\* C7 as amended: crop_edges returns round(w - p*w) - round(p*w) columns, a
\* number between 0 and w that is within one column of round(w * (1 - 2p)),
\* and all w columns when p = 0.
C7_CropWidthWithinOne ==
    pc = "cropped" =>
        LET w == raw_width
            p == args.image_crop_percentage
            n == Cardinality(cropped)
        IN  /\ n = round(PercentDen * w - p * w, PercentDen)
                     - round(p * w, PercentDen)
            /\ n >= 0 /\ n <= w
            /\ Abs(n - round(w * (PercentDen - 2 * p), PercentDen)) <= 1
            /\ (p = 0 => cropped = 0 .. w - 1)

\* A crop where both bounds round a tie: 10 columns at 15 percent keep 6.
C7_Witness ==
    /\ pc = "cropped"
    /\ raw_width = 10
    /\ args.image_crop_percentage = DefaultCropPercent
    /\ Cardinality(cropped) = 6

(***************************************************************************)
(* Pixel neighbourhoods.                                                   *)
(***************************************************************************)
\* The raster (row-major) position of a pixel.
Raster(p) == p[1] * Cols + p[2]

\* The default structuring element of scipy.ndimage: the four neighbours.
Adjacent(p, q) == Abs(p[1] - q[1]) + Abs(p[2] - q[2]) = 1

OnBorder(p) ==
    p[1] = 0 \/ p[1] = Rows - 1 \/ p[2] = 0 \/ p[2] = Cols - 1

RECURSIVE Grow(_, _)
\* The pixels of Region connected to a pixel of Seed (Seed within Region).
Grow(Seed, Region) ==
    LET next == Seed \cup {q \in Region : \E p \in Seed : Adjacent(p, q)}
    IN  IF next = Seed THEN Seed ELSE Grow(next, Region)

\* skimage.morphology.disk(radius) placed at p: the pixels q it covers.
InDisk(p, q, radius) ==
    (p[1] - q[1]) * (p[1] - q[1]) + (p[2] - q[2]) * (p[2] - q[2])
        <= radius * radius

(***************************************************************************)
(* region_based_segmentation, from exposure.rescale_intensity on           *)
(***************************************************************************)
\* The values the byte array `a` takes.
Values(a) == {a[p] : p \in Grid}

MinOf(S) == CHOOSE x \in S : \A y \in S : x <= y

MaxOf(S) == CHOOSE x \in S : \A y \in S : x >= y

\* exposure.rescale_intensity(hdome) on a uint8 image: the image's own range
\* is stretched to 0..255 and cast back to uint8.  On a flat image the range
\* is empty and the result depends on the library version: 0 / 0 cast to a
\* byte (0), or the unscaled value times 255 wrapped to a byte.
rescale_intensity(a) ==
    LET imin == MinOf(Values(a))
        imax == MaxOf(Values(a))
    IN  IF imin # imax
        THEN {[p \in Grid |-> ((a[p] - imin) * MaxByte) \div (imax - imin)]}
        ELSE {[p \in Grid |-> 0],
              [p \in Grid |-> (imin * MaxByte) % (MaxByte + 1)]}

\* Lines 174-176: markers = zeros; markers[hdome < low] = 1;
\* markers[hdome > high] = 2 (the second assignment wins).
find_markers(a, marker_low, marker_high) ==
    [p \in Grid |->
        IF a[p] > marker_high THEN 2
        ELSE IF a[p] < marker_low THEN 1
        ELSE 0]

\* watershed(elevation_map, markers): every marked pixel keeps its marker,
\* every unmarked pixel is flooded from a marker (which one depends on the
\* elevation map and on the flood order), and without any marker nothing is
\* flooded and the result is 0 everywhere.
watershed(m) ==
    LET seeds == Values(m) \ {0}
    IN  IF seeds = {} THEN {[p \in Grid |-> 0]}
        ELSE {s \in [Grid -> seeds] : \A p \in Grid : m[p] # 0 => s[p] = m[p]}

\* ndi.binary_fill_holes(segmentation - 1): a pixel is foreground when
\* segmentation - 1 is not 0; background not connected to the image border
\* through background is filled.
binary_fill_holes_minus_one(s) ==
    LET background == {p \in Grid : s[p] - 1 = 0}
        outside == Grow({p \in background : OnBorder(p)}, background)
    IN  [p \in Grid |-> p \notin outside]

\* skimage binary_erosion (beyond the border counts as foreground).
binary_erosion(b, radius) ==
    [p \in Grid |-> \A q \in Grid : InDisk(p, q, radius) => b[q]]

\* skimage binary_dilation (beyond the border counts as background).
binary_dilation(b, radius) ==
    [p \in Grid |-> \E q \in Grid : InDisk(p, q, radius) /\ b[q]]

\* binary_opening(segmentation, selem=disk(5)): erosion, then dilation.
binary_opening(b) ==
    binary_dilation(binary_erosion(b, OpeningRadius), OpeningRadius)

\* The connected component of foreground pixel p in the binary image b.
Component(b, p) == Grow({p}, {q \in Grid : b[q]})

\* ndi.label(segmentation): each connected component gets the next number,
\* in raster order of its first pixel; background is 0.
label(b) ==
    LET first(p) == MinOf({Raster(q) : q \in Component(b, p)})
        firsts == {first(p) : p \in {q \in Grid : b[q]}}
    IN  [p \in Grid |->
            IF b[p] THEN Cardinality({f \in firsts : f <= first(p)}) ELSE 0]

\* The cut-offs tried for --watershed_low and --watershed_high: the defaults,
\* the ends of the byte range and one value between the grey levels.  The
\* segmentation is started with a low cut-off below the high one.
Cutoffs == {0, DefaultWatershedLow, DefaultWatershedHigh, 200, MaxByte}

InitSeg ==
    /\ pc = "rescale"
    /\ exception = ""
    /\ args \in {a \in {[DefaultArgs EXCEPT !.watershed_low = lo,
                                              !.watershed_high = hi] :
                            lo \in Cutoffs, hi \in Cutoffs} :
                    a.watershed_low < a.watershed_high}
    /\ hdome \in [Grid -> 0 .. MaxGray]
    /\ markers = Blank
    /\ segmentation = Blank
    /\ image_segments = Blank
    /\ raw_width = 0
    /\ cropped = {}
    /\ directory = {}
    /\ input_image_list = <<>>
    /\ image_name_list = <<>>
    /\ fluor_kernel_count = <<>>
    /\ nonfluor_kernel_count = <<>>
    /\ output_file = <<>>
    /\ returns = <<>>
    /\ image = BlankImage
    /\ segment_centers = <<>>
    /\ rgb_intensity = <<>>
    /\ kmeans = NotFitted
    /\ data_array = <<>>
    /\ count_kernels_output = <<>>

\* What the steps of region_based_segmentation leave alone.
SegFrame ==
    UNCHANGED <<exception, args, directory, input_image_list, image_name_list,
                fluor_kernel_count, nonfluor_kernel_count, output_file,
                returns, raw_width, cropped, image, segment_centers,
                rgb_intensity, kmeans, data_array, count_kernels_output>>

\* Line 167.
RescaleIntensity ==
    /\ pc = "rescale"
    /\ hdome' \in rescale_intensity(hdome)
    /\ pc' = "markers"
    /\ UNCHANGED <<markers, segmentation, image_segments>>
    /\ SegFrame

\* Lines 174-176.
FindMarkers ==
    /\ pc = "markers"
    /\ markers' = find_markers(hdome, args.watershed_low, args.watershed_high)
    /\ pc' = "watershed"
    /\ UNCHANGED <<hdome, segmentation, image_segments>>
    /\ SegFrame

\* Lines 170 and 180.
Watershed ==
    /\ pc = "watershed"
    /\ segmentation' \in watershed(markers)
    /\ pc' = "fill_holes"
    /\ UNCHANGED <<hdome, markers, image_segments>>
    /\ SegFrame

\* Line 183.
FillHoles ==
    /\ pc = "fill_holes"
    /\ segmentation' = binary_fill_holes_minus_one(segmentation)
    /\ pc' = "opening"
    /\ UNCHANGED <<hdome, markers, image_segments>>
    /\ SegFrame

\* Line 189.
Opening ==
    /\ pc = "opening"
    /\ segmentation' = binary_opening(segmentation)
    /\ pc' = "label"
    /\ UNCHANGED <<hdome, markers, image_segments>>
    /\ SegFrame

\* Lines 191-193 and the assignment of line 354.
Label ==
    /\ pc = "label"
    /\ image_segments' = label(segmentation)
    /\ pc' = "segmented"
    /\ UNCHANGED <<hdome, markers, segmentation>>
    /\ SegFrame

NextSeg ==
    \/ RescaleIntensity
    \/ FindMarkers
    \/ Watershed
    \/ FillHoles
    \/ Opening
    \/ Label

SpecSeg == InitSeg /\ [][NextSeg]_vars

\* No pixel of the rescaled image is strictly greater than the high cut-off.
NoObjectSeed == \A p \in Grid : hdome[p] <= args.watershed_high

\* C10: when no pixel of the rescaled image exceeds the high cut-off (no
\* marker of class 2), region_based_segmentation returns a mask without any
\* positive label, whether or not a pixel is below the low cut-off.
C10_NoSeedNoObject ==
    (pc = "segmented" /\ NoObjectSeed) =>
        \A p \in Grid : image_segments[p] = 0

(***************************************************************************)
(* remove_bottom_edge, find_centers, mean_intensity                        *)
(***************************************************************************)
\* np.max(mask).
LabelMax(mask) == MaxOf(Values(mask))

\* The pixels of mask carrying label l.
PixelsOf(mask, l) == {p \in Grid : mask[p] = l}

\* mask[(mask.shape[0] - 1), :], the values of the last row.
LastRow(mask) == {mask[<<Rows - 1, c>>] : c \in 0 .. Cols - 1}

RECURSIVE remove_from(_, _, _)
\* The loop of remove_bottom_edge from object_num on; `last` is the
\* np.max(mask) taken when the loop started.
remove_from(mask, object_num, last) ==
    IF object_num > last THEN mask
    ELSE IF object_num \in LastRow(mask)
         THEN remove_from([p \in Grid |->
                              IF mask[p] = object_num THEN 0 ELSE mask[p]],
                          object_num + 1, last)
         ELSE remove_from(mask, object_num + 1, last)

\* A mutation of remove_bottom_edge that clears only the pixels of the
\* bottom row.
remove_bottom_row_only(labeled_image_mask) ==
    [p \in Grid |-> IF p[1] = Rows - 1 THEN 0 ELSE labeled_image_mask[p]]

\* Lines 207-214.
remove_bottom_edge(labeled_image_mask) ==
    remove_from(labeled_image_mask, 1, LabelMax(labeled_image_mask))

\* A float that is a fraction <<n, d>>; 0 / 0 is numpy's nan.
IsNaN(x) == x[2] = 0

\* ndi.center_of_mass(array, array, index)[l - 1]: the coordinates of the
\* pixels labelled l weighted by the array itself, over the sum of the
\* weights; a label without pixels gives 0 / 0 in both coordinates.
center_of_mass(array, l) ==
    LET pixels == PixelsOf(array, l)
        normalizer == SumOver([p \in Grid |-> array[p]], pixels)
    IN  <<<<SumOver([p \in Grid |-> array[p] * p[1]], pixels), normalizer>>,
          <<SumOver([p \in Grid |-> array[p] * p[2]], pixels), normalizer>>>>

\* A mutation of find_centers that keeps the nan entries.
find_centers_keep_nan(input_array) ==
    [l \in 1 .. LabelMax(input_array) |-> center_of_mass(input_array, l)]

\* Lines 226-239: the centres (y, x) of the labels 1 .. array.max(), the
\* entries whose first coordinate prints as 'nan' dropped.
find_centers(input_array) ==
    LET centers == [l \in 1 .. LabelMax(input_array) |->
                        center_of_mass(input_array, l)]
        not_nan(x) == ~IsNaN(x[1])
    IN  SelectSeq(centers, not_nan)

\* np.mean(channel[mask == object_num]) for channel k (1 red, 2 green,
\* 3 blue).
channel_mean(input_image, mask, object_num, k) ==
    LET pixels == PixelsOf(mask, object_num)
    IN  <<SumOver([p \in Grid |-> input_image[p][k]], pixels),
          Cardinality(pixels)>>

\* Lines 253-278: one row <<red, green, blue>> of channel means per label
\* of 1 .. np.max(mask) that occurs in the mask, in the order of the loop.
mean_intensity(input_image, input_mask) ==
    LET in_mask(object_num) == PixelsOf(input_mask, object_num) # {}
        present == SelectSeq([l \in 1 .. LabelMax(input_mask) |-> l], in_mask)
    IN  [i \in 1 .. Len(present) |->
            <<channel_mean(input_image, input_mask, present[i], 1),
              channel_mean(input_image, input_mask, present[i], 2),
              channel_mean(input_image, input_mask, present[i], 3)>>]

(***************************************************************************)
(* kmeans_from_rgb, which_is_more_green and the counting                   *)
(***************************************************************************)
\* The denominators of the rows of rgb and a common multiple of them.
Denominators(rgb) == {rgb[i][k][2] : i \in 1 .. Len(rgb), k \in 1 .. 3}

RECURSIVE Product(_)
Product(S) ==
    IF S = {} THEN 1
    ELSE LET x == CHOOSE y \in S : TRUE IN x * Product(S \ {x})

CommonDenominator(rgb) ==
    LET D == Denominators(rgb)
    IN  MinOf({m \in 1 .. Product(D) : \A d \in D : m % d = 0})

\* The rows of rgb as integer points: every mean times the common
\* denominator.
Points(rgb) ==
    LET c == CommonDenominator(rgb)
    IN  [i \in 1 .. Len(rgb) |->
            [k \in 1 .. 3 |-> rgb[i][k][1] * (c \div rgb[i][k][2])]]

\* The samples whose label is g.
Members(labels, g) == {i \in 1 .. Len(labels) : labels[i] = g}

\* |Members(g)|^2 times the squared distance of sample i to the mean of
\* group g.
ScaledDistance(pts, labels, i, g) ==
    LET group == Members(labels, g)
        n == Cardinality(group)
        d(k) == n * pts[i][k] - SumOver([j \in 1 .. Len(pts) |-> pts[j][k]],
                                        group)
    IN  d(1) * d(1) + d(2) * d(2) + d(3) * d(3)

\* Every sample is at least as close to the mean of its own group as to the
\* mean of the other: the assignment k-means has converged to.
Converged(pts, labels) ==
    \A i \in 1 .. Len(pts) :
        LET own == labels[i]
            other == 1 - labels[i]
            n_own == Cardinality(Members(labels, own))
            n_other == Cardinality(Members(labels, other))
        IN  ScaledDistance(pts, labels, i, own) * n_other * n_other
                <= ScaledDistance(pts, labels, i, other) * n_own * n_own

\* KMeans(n_clusters=2).fit(rgb) raises ValueError when there are fewer
\* samples than clusters.
kmeans_raises(rgb_input) == Len(rgb_input) < 2

\* Lines 290-294: the labels_ a fit can end with.  The two cluster numbers
\* depend on the random initialisation; samples that are all equal end in
\* cluster 0 alone (sklearn warns that it found one distinct cluster).
kmeans_from_rgb(rgb_input) ==
    LET pts == Points(rgb_input)
        n == Len(rgb_input)
    IN  IF \A i \in 1 .. n : pts[i] = pts[1]
        THEN {[i \in 1 .. n |-> 0]}
        ELSE {labels \in [1 .. n -> {0, 1}] :
                /\ Members(labels, 0) # {}
                /\ Members(labels, 1) # {}
                /\ Converged(pts, labels)}

\* The true mean green of the samples labelled g, as a fraction.
GreenMean(rgb, labels, g) ==
    LET pts == Points(rgb)
    IN  <<SumOver([i \in 1 .. Len(rgb) |-> pts[i][2]], Members(labels, g)),
          Cardinality(Members(labels, g))>>

\* The three assignments of lines 328-330.
swap_labels(labels) == [i \in 1 .. Len(labels) |-> 1 - labels[i]]

\* Lines 313-335.  label_0_green_mean indexes the green column with a list
\* of booleans (not i), which selects the samples labelled 0.
\* label_1_green_mean indexes it with the integer array labels_, which takes
\* element labels_[i] of the column for every sample i: the first sample's
\* green for a label 0, the second sample's green for a label 1.  A mean of
\* nothing is nan, and a comparison with nan is false.
which_is_more_green(rgb_input, labels) ==
    LET all_green_intensity == [i \in 1 .. Len(rgb_input) |->
                                    Points(rgb_input)[i][2]]
        n == Len(labels)
        label_0_green_mean ==
            <<SumOver(all_green_intensity, Members(labels, 0)),
              Cardinality(Members(labels, 0))>>
        label_1_green_mean ==
            <<SumOver([i \in 1 .. n |-> all_green_intensity[labels[i] + 1]],
                      1 .. n),
              n>>
    IN  IF /\ ~IsNaN(label_0_green_mean)
           /\ ~IsNaN(label_1_green_mean)
           /\ FracLess(label_0_green_mean, label_1_green_mean)
        THEN swap_labels(labels)
        ELSE labels

\* np.unique(column, return_counts=True)[1]: one count per value that
\* occurs, the values in ascending order.
unique_counts(column) ==
    LET occurring == {column[i] : i \in 1 .. Len(column)}
        count(v) == Cardinality({i \in 1 .. Len(column) : column[i] = v})
    IN  IF occurring = {0, 1} THEN <<count(0), count(1)>>
        ELSE IF occurring = {0} THEN <<count(0)>>
        ELSE IF occurring = {1} THEN <<count(1)>>
        ELSE <<>>

(***************************************************************************)
(* count_kernels, from the label mask on                                   *)
(***************************************************************************)
\* What the steps of count_kernels after the segmentation leave alone.
KernelFrame ==
    UNCHANGED <<args, directory, input_image_list, image_name_list,
                fluor_kernel_count, nonfluor_kernel_count, output_file,
                raw_width, cropped, hdome, markers, segmentation, image>>

\* Line 357.  The mask is changed in place.
RemoveBottomEdge ==
    /\ pc = "segmented"
    /\ image_segments' = remove_bottom_edge(image_segments)
    /\ pc' = "filtered"
    /\ UNCHANGED <<exception, returns, segment_centers, rgb_intensity, kmeans,
                   data_array, count_kernels_output>>
    /\ KernelFrame

\* Line 360.
FindCenters ==
    /\ pc = "filtered"
    /\ segment_centers' = find_centers(image_segments)
    /\ pc' = "located"
    /\ UNCHANGED <<exception, returns, image_segments, rgb_intensity, kmeans,
                   data_array, count_kernels_output>>
    /\ KernelFrame

\* Line 363.
MeanIntensity ==
    /\ pc = "located"
    /\ rgb_intensity' = mean_intensity(image, image_segments)
    /\ pc' = "summarised"
    /\ UNCHANGED <<exception, returns, image_segments, segment_centers, kmeans,
                   data_array, count_kernels_output>>
    /\ KernelFrame

\* A mutation of ZeroCheck: the test of line 368 left out.
ZeroCheckMissing ==
    /\ pc = "summarised"
    /\ pc' = "kmeans"
    /\ UNCHANGED <<exception, returns, image_segments, segment_centers,
                   rgb_intensity, kmeans, data_array, count_kernels_output>>
    /\ KernelFrame

\* Lines 368-369: without any row of intensities count_kernels returns
\* the list [0, 0].
ZeroCheck ==
    /\ pc = "summarised"
    /\ IF Len(rgb_intensity) = 0
       THEN /\ count_kernels_output' = <<0, 0>>
            /\ returns' = Append(returns, <<0, 0>>)
            /\ pc' = "returned"
       ELSE /\ pc' = "kmeans"
            /\ UNCHANGED <<count_kernels_output, returns>>
    /\ UNCHANGED <<exception, image_segments, segment_centers, rgb_intensity,
                   kmeans, data_array>>
    /\ KernelFrame

\* Line 370.
KMeansFit ==
    /\ pc = "kmeans"
    /\ IF kmeans_raises(rgb_intensity)
       THEN /\ exception' = "ValueError"
            /\ pc' = "raised"
            /\ UNCHANGED kmeans
       ELSE /\ \E labels \in kmeans_from_rgb(rgb_intensity) :
                    kmeans' = [fitted |-> TRUE, labels_ |-> labels]
            /\ pc' = "canonicalize"
            /\ UNCHANGED exception
    /\ UNCHANGED <<returns, image_segments, segment_centers, rgb_intensity,
                   data_array, count_kernels_output>>
    /\ KernelFrame

\* Line 373.
WhichIsMoreGreen ==
    /\ pc = "canonicalize"
    /\ kmeans' = [kmeans EXCEPT
                    !.labels_ = which_is_more_green(rgb_intensity, @)]
    /\ pc' = "count"
    /\ UNCHANGED <<exception, returns, image_segments, segment_centers,
                   rgb_intensity, data_array, count_kernels_output>>
    /\ KernelFrame

\* Lines 376-386: the centres are unpacked and stacked with the labels
\* (np.column_stack raises ValueError on columns of different lengths), and
\* the counts of the values of the label column are returned.
CountLabels ==
    /\ pc = "count"
    /\ IF Len(segment_centers) # Len(kmeans.labels_)
       THEN /\ exception' = "ValueError"
            /\ pc' = "raised"
            /\ UNCHANGED <<data_array, count_kernels_output, returns>>
       ELSE /\ data_array' =
                    [i \in 1 .. Len(segment_centers) |->
                        <<segment_centers[i][2], segment_centers[i][1],
                          kmeans.labels_[i]>>]
            /\ count_kernels_output' = unique_counts(kmeans.labels_)
            /\ returns' = Append(returns, unique_counts(kmeans.labels_))
            /\ pc' = "returned"
            /\ UNCHANGED exception
    /\ UNCHANGED <<image_segments, segment_centers, rgb_intensity, kmeans>>
    /\ KernelFrame

\* The colours of an image pixel: fluorescence level v shows as green
\* against red and blue.
Colours == {<<MaxIntensity - v, v, MaxIntensity - v>> : v \in 0 .. MaxIntensity}

\* One image at the point where region_based_segmentation labels its binary
\* segmentation: any segmentation and any image over the grid.
InitKernels ==
    /\ pc = "label"
    /\ exception = ""
    /\ args = DefaultArgs
    /\ segmentation \in [Grid -> BOOLEAN]
    /\ image \in [Grid -> Colours]
    /\ hdome = Blank
    /\ markers = Blank
    /\ image_segments = Blank
    /\ raw_width = 0
    /\ cropped = {}
    /\ directory = {}
    /\ input_image_list = <<>>
    /\ image_name_list = <<>>
    /\ fluor_kernel_count = <<>>
    /\ nonfluor_kernel_count = <<>>
    /\ output_file = <<>>
    /\ returns = <<>>
    /\ segment_centers = <<>>
    /\ rgb_intensity = <<>>
    /\ kmeans = NotFitted
    /\ data_array = <<>>
    /\ count_kernels_output = <<>>

NextKernels ==
    \/ Label
    \/ RemoveBottomEdge
    \/ FindCenters
    \/ MeanIntensity
    \/ ZeroCheck
    \/ KMeansFit
    \/ WhichIsMoreGreen
    \/ CountLabels

SpecKernels == InitKernels /\ [][NextKernels]_vars

\* The mask region_based_segmentation returned, before remove_bottom_edge
\* changed it in place.
InputMask == label(segmentation)

\* The positive labels that occur in the last row of a mask.
BottomLabels(mask) == LastRow(mask) \ {0}

\* The elements of a finite set of numbers in ascending order.
Ascending(S) ==
    CHOOSE s \in [1 .. Cardinality(S) -> S] :
        \A i, j \in 1 .. Cardinality(S) : i < j => s[i] < s[j]

\* The labels of 1 .. max(mask) that still have a pixel, ascending.
Surviving(mask) ==
    Ascending({l \in 1 .. LabelMax(mask) : PixelsOf(mask, l) # {}})

AfterFilter ==
    pc \in {"filtered", "located", "summarised", "kmeans", "canonicalize",
            "count", "returned", "raised"}

AfterSummary ==
    pc \in {"summarised", "kmeans", "canonicalize", "count", "returned",
            "raised"}

\* C3: after remove_bottom_edge every positive label that occurred in the
\* last row of the input mask occurs nowhere, and every pixel whose input
\* label is not in the last row keeps its input value.
C3_EdgeDuplicateFilter ==
    AfterFilter =>
        \A p \in Grid :
            image_segments[p] =
                IF InputMask[p] \in BottomLabels(InputMask)
                THEN 0 ELSE InputMask[p]

\* A filtered mask from which label 1 is gone and label 2 is left: a gap.
C3_Witness ==
    /\ pc = "filtered"
    /\ 1 \in BottomLabels(InputMask)
    /\ PixelsOf(image_segments, 1) = {}
    /\ PixelsOf(InputMask, 2) # {}
    /\ PixelsOf(image_segments, 2) = PixelsOf(InputMask, 2)

\* C2: find_centers and mean_intensity return sequences of the same length,
\* one entry per label of 1 .. max(mask) that still has a pixel, in
\* ascending label order: entry i of the one is the centroid and entry i of
\* the other the channel means of the i-th such label.
C2_LocatorSummarizerAligned ==
    AfterSummary =>
        LET labels == Surviving(image_segments)
        IN  /\ Len(segment_centers) = Len(labels)
            /\ Len(rgb_intensity) = Len(labels)
            /\ \A i \in 1 .. Len(labels) :
                LET pixels == PixelsOf(image_segments, labels[i])
                    n == Cardinality(pixels)
                IN  /\ i <= Len(segment_centers)
                    /\ i <= Len(rgb_intensity)
                    /\ ~IsNaN(segment_centers[i][1])
                    /\ ~IsNaN(segment_centers[i][2])
                    /\ \A k \in 1 .. 2 :
                        FracEq(segment_centers[i][k],
                               <<SumOver([p \in Grid |-> p[k]], pixels), n>>)
                    /\ \A k \in 1 .. 3 :
                        FracEq(rgb_intensity[i][k],
                               <<SumOver([p \in Grid |-> image[p][k]], pixels),
                                 n>>)

\* A mask with a gap (label 1 removed, label 2 left) summarised to one
\* centre and one row.
C2_Witness ==
    /\ pc = "summarised"
    /\ 1 \in BottomLabels(InputMask)
    /\ PixelsOf(image_segments, 2) # {}
    /\ Len(segment_centers) = 1
    /\ Len(rgb_intensity) = 1

\* The mask has no positive label.
NoObject == \A p \in Grid : image_segments[p] = 0

\* C4: when the mask that reaches the summarizer has no positive label,
\* count_kernels returns [0, 0] without fitting k-means, without unpacking
\* the centres and without an exception.
C4_ZeroDetections ==
    (AfterSummary /\ NoObject) =>
        /\ pc \in {"summarised", "returned"}
        /\ exception = ""
        /\ ~kmeans.fitted
        /\ data_array = <<>>
        /\ Len(rgb_intensity) = 0
        /\ (pc = "returned" =>
                /\ count_kernels_output = <<0, 0>>
                /\ returns = <<(<<0, 0>>)>>)

\* count_kernels returned [0, 0] for an image whose only objects touched the
\* bottom edge.
C4_Witness ==
    /\ pc = "returned"
    /\ NoObject
    /\ BottomLabels(InputMask) # {}
    /\ count_kernels_output = <<0, 0>>

(***************************************************************************)
(* The script: arguments, directory listing, the loop and the tsv writer   *)
(***************************************************************************)
\* A file name split where os.path.splitext splits it.
FileNames ==
    {[stem |-> "ear1", ext |-> ".png"],
     [stem |-> "ear2", ext |-> ".png"],
     [stem |-> "notes", ext |-> ".txt"]}

\* file.endswith('.png').
is_png(file) == file.ext = ".png"

\* os.path.splitext(os.path.split(image)[1])[0].
image_name(file) == file.stem

\* The orders os.listdir can return the files of a directory in.
Listings(dir) ==
    {s \in [1 .. Cardinality(dir) -> dir] :
        \A i, j \in 1 .. Cardinality(dir) : i # j => s[i] # s[j]}

\* The crop fractions and the cut-offs a run is started with: the defaults,
\* and a fraction above one half.
CropPercents == {DefaultCropPercent, PercentDen \div 2 + 10}

WatershedValues == {DefaultWatershedLow, DefaultWatershedHigh}

\* The rows mean_intensity can return for an image: up to MaxObjects
\* objects, each with three channel means.
Triples ==
    {<<(<<r, 1>>), (<<g, 1>>), (<<b, 1>>)>> :
        r \in 0 .. MaxIntensity, g \in 0 .. MaxIntensity,
        b \in 0 .. MaxIntensity}

Summaries == UNION {[1 .. n -> Triples] : n \in 0 .. MaxObjects}

Init ==
    /\ pc = "parse_args"
    /\ exception = ""
    /\ args \in [image_crop_percentage : CropPercents,
                 watershed_low : WatershedValues,
                 watershed_high : WatershedValues]
    /\ directory \in {d \in SUBSET FileNames : Cardinality(d) <= MaxFiles}
    /\ input_image_list = <<>>
    /\ image_name_list = <<>>
    /\ fluor_kernel_count = <<>>
    /\ nonfluor_kernel_count = <<>>
    /\ output_file = <<>>
    /\ returns = <<>>
    /\ raw_width = 0
    /\ cropped = {}
    /\ hdome = Blank
    /\ markers = Blank
    /\ segmentation = Blank
    /\ image = BlankImage
    /\ image_segments = Blank
    /\ segment_centers = <<>>
    /\ rgb_intensity = <<>>
    /\ kmeans = NotFitted
    /\ data_array = <<>>
    /\ count_kernels_output = <<>>

\* What the statements of the script outside count_kernels leave alone.
ScriptFrame ==
    UNCHANGED <<args, directory, raw_width, cropped, hdome, markers,
                segmentation, image, image_segments>>

\* Lines 47-55: argparse converts the options to float and int and checks
\* nothing else.
ParseArgs ==
    /\ pc = "parse_args"
    /\ pc' = "listdir"
    /\ UNCHANGED <<exception, input_image_list, image_name_list,
                   fluor_kernel_count, nonfluor_kernel_count, output_file,
                   returns, segment_centers, rgb_intensity, kmeans,
                   data_array, count_kernels_output>>
    /\ ScriptFrame

\* Lines 397-402.
ListDir ==
    /\ pc = "listdir"
    /\ \E listing \in Listings(directory) :
            input_image_list' = SelectSeq(listing, is_png)
    /\ pc' = "loop"
    /\ UNCHANGED <<exception, image_name_list, fluor_kernel_count,
                   nonfluor_kernel_count, output_file, returns,
                   segment_centers, rgb_intensity, kmeans, data_array,
                   count_kernels_output>>
    /\ ScriptFrame

\* Lines 409-411: the next image's identifier is appended and count_kernels
\* is called on it.
LoopNext ==
    /\ pc = "loop"
    /\ Len(image_name_list) < Len(input_image_list)
    /\ image_name_list' =
            Append(image_name_list,
                   image_name(input_image_list[Len(image_name_list) + 1]))
    /\ pc' = "count_kernels"
    /\ UNCHANGED <<exception, input_image_list, fluor_kernel_count,
                   nonfluor_kernel_count, output_file, returns,
                   segment_centers, rgb_intensity, kmeans, data_array,
                   count_kernels_output>>
    /\ ScriptFrame

\* Lines 347-363 for an image of the directory: the image is read, cropped
\* and segmented with the cut-offs of the command line, and its surviving
\* objects are located and summarised, one centre and one row each.
Summarize ==
    /\ pc = "count_kernels"
    /\ \E rows \in Summaries :
            /\ rgb_intensity' = rows
            /\ segment_centers' =
                    [i \in 1 .. Len(rows) |-> <<(<<0, 1>>), (<<i - 1, 1>>)>>]
    /\ pc' = "summarised"
    /\ UNCHANGED <<exception, input_image_list, image_name_list,
                   fluor_kernel_count, nonfluor_kernel_count, output_file,
                   returns, kmeans, data_array, count_kernels_output>>
    /\ ScriptFrame

\* Lines 416-418: elements 0 and 1 of the result are appended, element 0
\* first; an index past the end raises IndexError.  The locals of the call
\* are gone.
AppendCounts ==
    /\ pc = "returned"
    /\ fluor_kernel_count' = Append(fluor_kernel_count, count_kernels_output[1])
    /\ IF Len(count_kernels_output) < 2
       THEN /\ exception' = "IndexError"
            /\ pc' = "raised"
            /\ UNCHANGED nonfluor_kernel_count
       ELSE /\ nonfluor_kernel_count' =
                    Append(nonfluor_kernel_count, count_kernels_output[2])
            /\ pc' = "loop"
            /\ UNCHANGED exception
    /\ segment_centers' = <<>>
    /\ rgb_intensity' = <<>>
    /\ kmeans' = NotFitted
    /\ data_array' = <<>>
    /\ UNCHANGED <<input_image_list, image_name_list, output_file, returns,
                   count_kernels_output>>
    /\ ScriptFrame

RECURSIVE join(_, _)
\* sep.join(lines).
join(sep, lines) ==
    IF Len(lines) = 0 THEN ""
    ELSE IF Len(lines) = 1 THEN lines[1]
    ELSE lines[1] \o sep \o join(sep, Tail(lines))

\* A mutation of tsv_lines that writes the bright count in both columns.
tsv_lines_same_column(names, fluor, nonfluor) ==
    [counter \in 1 .. Len(names) |->
        names[counter] \o "\t" \o ToString(fluor[counter])
                       \o "\t" \o ToString(fluor[counter])]

\* Lines 424-430: one line per identifier, with the two counts at the same
\* position of the two count lists.
tsv_lines(names, fluor, nonfluor) ==
    [counter \in 1 .. Len(names) |->
        names[counter] \o "\t" \o ToString(fluor[counter])
                       \o "\t" \o ToString(nonfluor[counter])]

\* Lines 421-433, reached when the loop has run out of images: the file is
\* opened and the joined lines are written in one call.
WriteOutput ==
    /\ pc = "loop"
    /\ Len(image_name_list) = Len(input_image_list)
    /\ output_file' =
            Append(output_file,
                   join("\n", tsv_lines(image_name_list, fluor_kernel_count,
                                        nonfluor_kernel_count)))
    /\ pc' = "done"
    /\ UNCHANGED <<exception, input_image_list, image_name_list,
                   fluor_kernel_count, nonfluor_kernel_count, returns,
                   segment_centers, rgb_intensity, kmeans, data_array,
                   count_kernels_output>>
    /\ ScriptFrame

Next ==
    \/ ParseArgs
    \/ ListDir
    \/ LoopNext
    \/ Summarize
    \/ ZeroCheck
    \/ KMeansFit
    \/ WhichIsMoreGreen
    \/ CountLabels
    \/ AppendCounts
    \/ WriteOutput

Spec == Init /\ [][Next]_vars

\* The script started with the default options.
InitDefault == Init /\ args = DefaultArgs

SpecDefault == InitDefault /\ [][Next]_vars

\* The statements of count_kernels.
InCountKernels ==
    pc \in {"count_kernels", "summarised", "kmeans", "canonicalize", "count",
            "returned"}

\* C1: after which_is_more_green on N >= 2 rows the group labelled 0 is the
\* one with the higher mean green: its mean green is at least that of the
\* group labelled 1.
C1_GroupZeroIsGreener ==
    (pc \in {"count", "returned"} /\ kmeans.fitted /\ Len(rgb_intensity) >= 2
        /\ Members(kmeans.labels_, 0) # {} /\ Members(kmeans.labels_, 1) # {})
    => ~FracLess(GreenMean(rgb_intensity, kmeans.labels_, 0),
                 GreenMean(rgb_intensity, kmeans.labels_, 1))

\* C5: for an image with N >= 1 objects count_kernels returns two elements,
\* the number of objects labelled 0 and the number labelled 1, which sum to
\* N, also when all objects are in one group; and the loop can read both.
C5_TwoCounts ==
    /\ exception # "IndexError"
    /\ (pc = "returned" /\ Len(rgb_intensity) >= 1) =>
            /\ Len(count_kernels_output) = 2
            /\ count_kernels_output[1] =
                    Cardinality(Members(kmeans.labels_, 0))
            /\ count_kernels_output[2] =
                    Cardinality(Members(kmeans.labels_, 1))
            /\ count_kernels_output[1] + count_kernels_output[2] =
                    Len(rgb_intensity)

\* C6: with exactly one row of intensities the classification ends without
\* an exception and count_kernels returns two counts that total 1.
C6_SingleObject ==
    Len(rgb_intensity) = 1 =>
        /\ exception = ""
        /\ pc = "returned" =>
                /\ Len(count_kernels_output) = 2
                /\ count_kernels_output[1] + count_kernels_output[2] = 1

\* The command line is valid: low cut-off below the high one, crop fraction
\* within [0, 0.5].
ValidArgs ==
    /\ args.watershed_low < args.watershed_high
    /\ args.image_crop_percentage >= 0
    /\ 2 * args.image_crop_percentage <= PercentDen

\* C8: a run started with watershed_low >= watershed_high or with a crop
\* fraction outside [0, 0.5] stops before any image is read: no image is
\* processed under such a command line.
C8_ConfigValidated == InCountKernels => ValidArgs

\* The payload of a complete run: one record per .png image in the order of
\* the loop, with the counts count_kernels returned for that image.
ExpectedPayload ==
    join("\n",
         [i \in 1 .. Len(input_image_list) |->
            image_name(input_image_list[i])
                \o "\t" \o ToString(returns[i][1])
                \o "\t" \o ToString(returns[i][2])])

\* C9: the output file is written at most once and only when no image
\* remains; a completed run has written it exactly once, with one record
\* per .png image in processing order holding the image's identifier and
\* the two counts count_kernels returned for it.
C9_BatchOutput ==
    /\ Len(output_file) <= 1
    /\ Len(output_file) = 1 =>
            /\ pc = "done"
            /\ Len(returns) = Len(input_image_list)
    /\ pc = "done" =>
            /\ Len(output_file) = 1
            /\ Len(returns) = Len(input_image_list)
            /\ \A i \in 1 .. Len(returns) : Len(returns[i]) = 2
            /\ output_file[1] = ExpectedPayload

\* A completed run over two images with different counts.
C9_Witness ==
    /\ pc = "done"
    /\ Len(input_image_list) = 2
    /\ returns[1] = <<0, 0>>
    /\ returns[2][1] # returns[2][2]
    /\ Len(output_file) = 1

====
